---- MODULE Spec2Model ----
(***************************************************************************)
(* solid-tasks: the Task state machine (src/src/task.ts, lines 1-246), the *)
(* cancellation composer work() (src/src/work.ts, lines 22-71) and the Job *)
(* policy layer (src/src/job.ts).                                          *)
(*                                                                         *)
(* JavaScript runs one synchronous block to completion and then drains a   *)
(* FIFO microtask queue.  Every action below is one synchronous block of   *)
(* the library: a call of the public interface up to its first await, or  *)
(* one microtask (the continuation of an await, or a promise reaction).    *)
(* The caller's calls may fall between any two microtasks.  The caller may  *)
(* also call work() itself with the signal of a Task it built.             *)
(***************************************************************************)
EXTENDS Integers, Sequences, FiniteSets, TLC

VARIABLES
  tasks,   \* the Task objects constructed so far, in construction order
  job,     \* the Job's #options.mode and #reactiveState
  calls,   \* the promises handed out by abort(), then() and Job.abort()
  mq       \* the microtask queue

vars == <<tasks, job, calls, mq>>

\* Bounds of the model.
MaxOps == 3

NoTask == 0

Null == <<"null", "">>
Value == <<"value", "Hello World">>
AppError == <<"Error", "Something went wrong">>
ThrownError == <<"Error", "thrown by the factory">>
DefaultReason == "The task was aborted."
TaskReason == "reason given to Task.abort"
JobReason == "reason given to Job.abort"
Kinds == {"fulfill", "reject", "abort"}

AbortError(r) == <<"TaskAbortError", r>>

IsTaskAbortError(e) == e[1] = "TaskAbortError"

Ok(v) == [ok |-> TRUE, v |-> v]
Err(e) == [ok |-> FALSE, v |-> e]

World == [tasks |-> tasks, job |-> job, calls |-> calls, mq |-> mq]

NewTask(inJob) ==
  [status |-> "idle", value |-> Null, error |-> Null,
   aborted |-> FALSE, reason |-> Null,
   promise |-> "none", result |-> Null,
   factoryCalls |-> 0, op |-> "none",
   race |-> "none", raceResult |-> Ok(Null), workListener |-> FALSE,
   listeners |-> {}, events |-> <<>>, heard |-> <<>>,
   log |-> <<"idle">>, inJob |-> inJob]

NewJob(mode) ==
  [mode |-> mode, status |-> "idle", performCount |-> 0,
   lastPending |-> NoTask, lastFulfilled |-> NoTask, lastRejected |-> NoTask,
   lastSettled |-> NoTask, lastAborted |-> NoTask]

Microtask(k, t, id, o) == [k |-> k, t |-> t, id |-> id, o |-> o]

Enqueue(w, m) == [w EXCEPT !.mq = Append(@, m)]

\* An assignment to #reactiveState.status; log keeps the values it went through.
SetStatus(w, t, s) ==
  [w EXCEPT !.tasks[t].status = s,
            !.tasks[t].log = IF w.tasks[t].status = s THEN @ ELSE Append(@, s)]

ClearsPendingAlways(j, t) == TRUE

\* if (this.#reactiveState.lastPending === task) in each of the listeners.
ClearsPending(j, t) == j.lastPending = t

\* The three listeners Job.#instrumentTask registers.
JobListenerAbortSettles(w, t, kind) ==
  LET j == w.job
      j1 == CASE kind = "reject" -> [j EXCEPT !.lastRejected = t, !.lastSettled = t]
              [] kind = "fulfill" -> [j EXCEPT !.lastFulfilled = t, !.lastSettled = t]
              [] kind = "abort" -> [j EXCEPT !.lastAborted = t, !.lastSettled = t]
      j2 == IF ClearsPending(j1, t)
            THEN [j1 EXCEPT !.lastPending = NoTask, !.status = "idle"]
            ELSE j1
  IN [w EXCEPT !.job = j2]

JobListener(w, t, kind) ==
  LET j == w.job
      j1 == CASE kind = "reject" -> [j EXCEPT !.lastRejected = t, !.lastSettled = t]
              [] kind = "fulfill" -> [j EXCEPT !.lastFulfilled = t, !.lastSettled = t]
              [] kind = "abort" -> [j EXCEPT !.lastAborted = t]
      j2 == IF ClearsPending(j1, t)
            THEN [j1 EXCEPT !.lastPending = NoTask, !.status = "idle"]
            ELSE j1
  IN [w EXCEPT !.job = j2]

\* A listener the caller registered: it snapshots what it can read.
UserListener(w, t, kind) ==
  [w EXCEPT !.tasks[t].heard =
     Append(@, [kind |-> kind, status |-> w.tasks[t].status,
                value |-> w.tasks[t].value, error |-> w.tasks[t].error,
                job |-> w.job])]

\* Task.#dispatchEvent: listeners run in registration order (the Job's were
\* registered at construction), each once.
DispatchEvent(w, t, kind) ==
  LET ls == w.tasks[t].listeners
      w1 == [w EXCEPT !.tasks[t].events = Append(@, kind)]
      w2 == IF <<"job", kind>> \in ls THEN JobListener(w1, t, kind) ELSE w1
      w3 == IF <<"user", kind>> \in ls THEN UserListener(w2, t, kind) ELSE w2
  IN [w3 EXCEPT !.tasks[t].listeners = @ \ {<<"job", kind>>, <<"user", kind>>}]

HandleFailureDropsError(w, t, e) ==
  IF IsTaskAbortError(e)
  THEN DispatchEvent(SetStatus(w, t, "aborted"), t, "abort")
  ELSE DispatchEvent(SetStatus(w, t, "rejected"), t, "reject")

HandleFailure(w, t, e) ==
  LET w1 == [w EXCEPT !.tasks[t].error = e]
  IN IF IsTaskAbortError(e)
     THEN DispatchEvent(SetStatus(w1, t, "aborted"), t, "abort")
     ELSE DispatchEvent(SetStatus(w1, t, "rejected"), t, "reject")

HandleSuccess(w, t, v) ==
  LET w1 == [w EXCEPT !.tasks[t].value = v]
  IN DispatchEvent(SetStatus(w1, t, "fulfilled"), t, "fulfill")

ScopedNever(kind) == FALSE

ScopedAbortOnly(kind) == kind = "abort"

\* addEventListener's { signal: type === "abort" ? undefined : this.signal }.
ScopedToSignal(kind) == kind # "abort"

\* AbortController.abort(error) on the Task's own controller: the first call
\* sets the reason, detaches the listeners scoped to the signal and runs the
\* abort listener work() registered, which rejects its side of the race.
\* The abort listeners that work() calls of the caller have on the signal of
\* Task t, registered before (first) or after the one of the Task's own work().
WorkListeners(w, t, first) ==
  SelectSeq([i \in 1..Len(w.calls) |-> i],
            LAMBDA i : /\ w.calls[i].kind = "work" /\ w.calls[i].t = t
                       /\ w.calls[i].listener /\ w.calls[i].first = first)

WorkReacts(w, t, first, e) ==
  LET ids == WorkListeners(w, t, first)
  IN [n \in 1..Len(ids) |-> Microtask("workReact", t, ids[n], Err(e))]

ListenerNeverFires(tk) == FALSE

\* The abort listener of the Task's own work() is on the signal and runs.
ListenerFires(tk) == tk.workListener

SignalAbort(w, t, e) ==
  IF w.tasks[t].aborted
  THEN w
  ELSE LET w1 == [w EXCEPT !.tasks[t].aborted = TRUE,
                           !.tasks[t].reason = e,
                           !.tasks[t].listeners = {l \in @ : ~ScopedToSignal(l[2])},
                           !.tasks[t].workListener = FALSE,
                           !.calls = [i \in 1..Len(w.calls) |->
                                        IF w.calls[i].kind = "work" /\ w.calls[i].t = t
                                        THEN [w.calls[i] EXCEPT !.listener = FALSE]
                                        ELSE w.calls[i]]]
           own == IF ListenerFires(w.tasks[t])
                  THEN <<Microtask("raceReact", t, 0, Err(e))>>
                  ELSE <<>>
       IN [w1 EXCEPT !.mq = @ \o WorkReacts(w, t, TRUE, e) \o own
                                \o WorkReacts(w, t, FALSE, e)]

\* The continuations of the calls waiting on the Task's memoized promise.
ContKind(kind) == IF kind = "then" THEN "thenCont" ELSE "abortCont"

Waiting(w, t) ==
  SelectSeq([i \in 1..Len(w.calls) |-> i],
            LAMBDA i : w.calls[i].t = t /\ w.calls[i].state = "waiting")

\* The async function #resolve returns or throws: #promise settles and the
\* reactions registered on it are queued in registration order.
SettlePromise(w, t, o) ==
  LET ids == Waiting(w, t)
      conts == [n \in 1..Len(ids) |->
                  Microtask(ContKind(w.calls[ids[n]].kind), t, ids[n], o)]
  IN [w EXCEPT !.tasks[t].promise = IF o.ok THEN "fulfilled" ELSE "rejected",
               !.tasks[t].result = o.v,
               !.calls = [i \in 1..Len(w.calls) |->
                            IF w.calls[i].t = t /\ w.calls[i].state = "waiting"
                            THEN [w.calls[i] EXCEPT !.state = "queued"]
                            ELSE w.calls[i]],
               !.mq = @ \o conts]

SignalNeverThrows(tk) == FALSE

\* signal.throwIfAborted() at the head of work().
SignalThrows(tk) == tk.aborted

KeptByFinally(l) == l

\* finally { controlledPromise.abort() }: signal.removeEventListener.
DetachedByFinally(l) == FALSE

RaceAlwaysOpen(tk) == TRUE

\* Promise.race takes the first settlement only.
RaceOpen(tk) == tk.race = "pending"

\* work(signal, promise) up to its await of the race.
Work(w, t) ==
  IF SignalThrows(w.tasks[t])
  THEN Enqueue([w EXCEPT !.tasks[t].race = "settled",
                         !.tasks[t].raceResult = Err(w.tasks[t].reason)],
               Microtask("resolveCont", t, 0, Ok(Null)))
  ELSE [w EXCEPT !.tasks[t].workListener = TRUE, !.tasks[t].race = "pending"]

SkipsThrowIfAborted(tk) == FALSE

\* this.#abortController.signal.throwIfAborted() at the head of #resolve.
ThrowIfAborted(tk) == tk.aborted

\* Task.#resolve up to its await; throws says whether the factory throws
\* synchronously instead of returning a promise.
Resolve(w, t, throws) ==
  IF ThrowIfAborted(w.tasks[t])
  THEN SettlePromise(HandleFailure(w, t, w.tasks[t].reason), t, Err(w.tasks[t].reason))
  ELSE LET w1 == SetStatus(w, t, "pending")
           w2 == [w1 EXCEPT !.tasks[t].factoryCalls = @ + 1]
       IN IF throws
          THEN SettlePromise(HandleFailure(w2, t, ThrownError), t, Err(ThrownError))
          ELSE Work([w2 EXCEPT !.tasks[t].op = "pending",
                               !.tasks[t].promise = "pending"], t)

MemoizedWhilePending(p) == p = "pending"

\* The ??= of Task.#execute.
Memoized(p) == p # "none"

Execute(w, t, throws) ==
  IF Memoized(w.tasks[t].promise) THEN w ELSE Resolve(w, t, throws)

Call(kind, t, at, state) ==
  [kind |-> kind, t |-> t, at |-> at, state |-> state, out |-> Ok(Null), seen |-> "none"]

\* A reaction registered on #promise (an await of it, or then/catch/finally):
\* queued at once when there is no promise or it has settled.
AwaitPromise(w, t, kind, at) ==
  LET p == w.tasks[t].promise
      id == Len(w.calls) + 1
  IN IF p = "pending"
     THEN [w EXCEPT !.calls = Append(@, Call(kind, t, at, "waiting"))]
     ELSE [w EXCEPT !.calls = Append(@, Call(kind, t, at, "queued")),
                    !.mq = Append(@, Microtask(ContKind(kind), t, id,
                                     IF p = "none" THEN Ok(Null)
                                     ELSE [ok |-> p = "fulfilled", v |-> w.tasks[t].result]))]

\* The kinds of promise that Job.abort() returns: to its caller, and to the
\* cleanup createJob registers with the owner.
JobAbortKinds == {"jobAbort", "cleanupAbort"}

AbortSettlesAlways(status) == TRUE

AbortSettlesPending(status) == status \in {"idle", "pending"}

\* if (this.isIdle) this.#handleFailure(error)
AbortSettlesNow(status) == status = "idle"

\* Task.abort(cancelReason) up to its await.
Abort(w, t, r, kind) ==
  LET at == w.tasks[t].status
      id == Len(w.calls) + 1
  IN IF at \notin {"idle", "pending"}
     THEN IF kind \in JobAbortKinds
          THEN [w EXCEPT !.calls = Append(@, Call(kind, t, at, "queued")),
                         !.mq = Append(@, Microtask("jobAbortCont", t, id, Ok(Null)))]
          ELSE [w EXCEPT !.calls = Append(@, [Call(kind, t, at, "resolved") EXCEPT !.seen = at])]
     ELSE LET w1 == SignalAbort(w, t, AbortError(r))
              w2 == IF AbortSettlesNow(w1.tasks[t].status)
                    THEN HandleFailure(w1, t, AbortError(r))
                    ELSE w1
          IN AwaitPromise(w2, t, kind, at)

AbortCatchAll(o) == Ok(Null)

\* The try/catch around abort()'s await: what abort()'s promise settles with.
AbortCatch(o) ==
  IF o.ok \/ IsTaskAbortError(o.v) THEN Ok(Null) ELSE o

SettleCall(w, id, o) ==
  [w EXCEPT !.calls[id].state = IF o.ok THEN "resolved" ELSE "rejected",
            !.calls[id].out = o,
            !.calls[id].seen = w.tasks[w.calls[id].t].status]

Init ==
  /\ tasks = <<>>
  /\ job \in {NewJob("drop"), NewJob("restart")}
  /\ calls = <<>>
  /\ mq = <<>>

Install(w) ==
  /\ tasks' = w.tasks
  /\ job' = w.job
  /\ calls' = w.calls
  /\ mq' = w.mq

\* Task.addEventListener: a listener whose signal is already triggered is not
\* added.
AddEventListener(w, t, who, kind) ==
  IF ScopedToSignal(kind) /\ w.tasks[t].aborted
  THEN w
  ELSE [w EXCEPT !.tasks[t].listeners = @ \cup {<<who, kind>>}]

\* The caller listens for the three kinds of event of a Task it was handed.
Listen(w, t) ==
  AddEventListener(AddEventListener(AddEventListener(w, t, "user", "fulfill"),
                                    t, "user", "reject"),
                   t, "user", "abort")

\* ---- microtasks ----

\* Promise.race's reaction to one of its two promises settling: the first
\* reaction to run settles the race.  work() resumes from its await of the
\* race, its finally block detaches the abort listener, and the promise
\* work() returned settles as the race did; #resolve resumes a microtask
\* later.
RaceReact(w, t, o) ==
  IF RaceOpen(w.tasks[t])
  THEN Enqueue([w EXCEPT !.tasks[t].race = "settled",
                         !.tasks[t].raceResult = o,
                         !.tasks[t].workListener = DetachedByFinally(@)],
               Microtask("resolveCont", t, 0, Ok(Null)))
  ELSE w

\* Task.#resolve resumes from its await of work().
ResolveCont(w, t) ==
  LET o == w.tasks[t].raceResult
  IN IF o.ok
     THEN SettlePromise(HandleSuccess(w, t, o.v), t, o)
     ELSE SettlePromise(HandleFailure(w, t, o.v), t, o)

\* Task.abort resumes from its await of #promise.  Job.abort's own promise
\* follows the one Task.abort returned, a microtask behind it.
AbortCont(w, id, o) ==
  IF w.calls[id].kind \in JobAbortKinds
  THEN Enqueue(w, Microtask("jobAbortCont", w.calls[id].t, id, AbortCatch(o)))
  ELSE SettleCall(w, id, AbortCatch(o))

\* A work() call of the caller: the reaction of its race to one of the two
\* promises settling; work() resumes, detaches its abort listener and the
\* promise it returned settles as the race did.
WorkReact(w, id, o) ==
  IF w.calls[id].state = "racing"
  THEN [w EXCEPT !.calls[id].state = IF o.ok THEN "resolved" ELSE "rejected",
                 !.calls[id].out = o,
                 !.calls[id].listener = DetachedByFinally(@)]
  ELSE w

RunMicrotask ==
  /\ mq # <<>>
  /\ LET m == Head(mq)
         w == [World EXCEPT !.mq = Tail(@)]
     IN Install(CASE m.k = "raceReact" -> RaceReact(w, m.t, m.o)
                  [] m.k = "resolveCont" -> ResolveCont(w, m.t)
                  [] m.k = "abortCont" -> AbortCont(w, m.id, m.o)
                  [] m.k = "workReact" -> WorkReact(w, m.id, m.o)
                  [] m.k = "thenCont" -> SettleCall(w, m.id, m.o)
                  [] m.k = "jobAbortCont" -> SettleCall(w, m.id, m.o))

\* ---- the operation the factory returned ----

\* What the operation may settle with: a value, an application error, the
\* signal's reason once the signal is triggered (a cooperating operation), or
\* a TaskAbortError the operation built itself (the class is exported).
ForgedAbortError == AbortError("thrown by the operation")

OpOutcomes(t) ==
  IF tasks[t].aborted
  THEN {Ok(Value), Err(tasks[t].reason)}
  ELSE {Ok(Value), Err(AppError), Err(ForgedAbortError)}

\* The reaction Promise.race registered on the operation is queued; on a race
\* that has settled it does nothing, and is left out of the queue.
OpSettle(t, o) ==
  /\ tasks[t].op = "pending"
  /\ LET w == [World EXCEPT !.tasks[t].op = "settled"]
     IN IF RaceOpen(tasks[t])
        THEN Install(Enqueue(w, Microtask("raceReact", t, 0, o)))
        ELSE Install(w)

\* ---- the Job ----

InstrumentTask(w, t) ==
  AddEventListener(AddEventListener(AddEventListener(w, t, "job", "reject"),
                                    t, "job", "fulfill"),
                   t, "job", "abort")

DropsNever(j) == FALSE

DropsNew(j) == j.lastPending # NoTask /\ j.mode = "drop"

DropTargetPending(j, t) == j.lastPending

\* task.abort() in the Drop branch: the Task it aborts.
DropTarget(j, t) == t

RestartsNever(j) == FALSE

RestartsOld(j) == j.lastPending # NoTask /\ j.mode = "restart"

RestartTargetNew(j, t) == t

\* this.lastPending.abort(): the Task a Restart-mode perform() aborts.
RestartTarget(j, t) == j.lastPending

PerformCountedWhenStarted(j) ==
  IF DropsNew(j) THEN j ELSE [j EXCEPT !.performCount = @ + 1]

\* this.#reactiveState.performCount++
PerformCounted(j) == [j EXCEPT !.performCount = @ + 1]

PerformStatusIdle == "idle"

\* this.#reactiveState.status = JobStatus.Pending, at the end of perform().
PerformStatus == "pending"

Perform(w, throws) ==
  LET t == Len(w.tasks) + 1
      w0 == InstrumentTask([w EXCEPT !.tasks = Append(@, NewTask(TRUE))], t)
      w1 == [w0 EXCEPT !.job = PerformCounted(@)]
  IN IF DropsNew(w1.job)
     THEN Abort(w1, DropTarget(w1.job, t), DefaultReason, "dropAbort")
     ELSE LET w2 == IF RestartsOld(w1.job)
                    THEN Abort(w1, RestartTarget(w1.job, t), DefaultReason, "restartAbort")
                    ELSE w1
              w3 == Execute(w2, t, throws)
          IN [w3 EXCEPT !.job.lastPending = t, !.job.status = PerformStatus]

\* The calls the caller has made: the Tasks it had built and the promises it
\* was handed.
CallerOps ==
  Len(tasks)
    + Cardinality({i \in 1..Len(calls) :
                     calls[i].kind \in {"abort", "then", "jobAbort", "work",
                                         "cleanupAbort"}})

\* A Task the caller constructs and the Job share no state: a behaviour has
\* the Job's Tasks or the caller's, not both.
JobPerform(throws) ==
  /\ CallerOps < MaxOps
  /\ \A t \in DOMAIN tasks : tasks[t].inJob
  /\ Install(Listen(Perform(World, throws), Len(tasks) + 1))

AbortTargetOrLastAborted(j) ==
  IF j.lastPending # NoTask THEN j.lastPending ELSE j.lastAborted

\* this.lastPending?.abort(reason): the Task Job.abort() forwards to, if any.
AbortTarget(j) == j.lastPending

JobAbort ==
  /\ CallerOps < MaxOps
  /\ IF AbortTarget(job) = NoTask
     THEN Install([World EXCEPT !.calls = Append(@, Call("jobAbort", NoTask, "none", "resolved"))])
     ELSE Install(Abort(World, AbortTarget(job), JobReason, "jobAbort"))

\* createJob's onCleanup(() => { job.abort() }): the owner the Job was created
\* under is disposed, which happens once.
Dispose ==
  /\ CallerOps < MaxOps
  /\ \A i \in DOMAIN calls : calls[i].kind # "cleanupAbort"
  /\ \A t \in DOMAIN tasks : tasks[t].inJob
  /\ IF AbortTarget(job) = NoTask
     THEN Install([World EXCEPT !.calls = Append(@, Call("cleanupAbort", NoTask, "none", "resolved"))])
     ELSE Install(Abort(World, AbortTarget(job), DefaultReason, "cleanupAbort"))

\* ---- the caller's use of a Task ----

\* Tasks the caller builds share no state with each other either: one
\* stands for all of them, beside a Job left in its default mode.
CreateTask ==
  /\ CallerOps < MaxOps
  /\ tasks = <<>>
  /\ job.mode = "drop"
  /\ Install(Listen([World EXCEPT !.tasks = Append(@, NewTask(FALSE))], Len(tasks) + 1))

TaskPerform(t, throws) ==
  Install(Execute(World, t, throws))

\* then(), catch() and finally(): #execute() and a reaction on its promise.
TaskThen(t, throws) ==
  /\ CallerOps < MaxOps
  /\ Install(AwaitPromise(Execute(World, t, throws), t, "then", tasks[t].status))

TaskAbort(t) ==
  /\ CallerOps < MaxOps
  /\ Install(Abort(World, t, TaskReason, "abort"))

\* The promise of a work(task.signal, operation) call of the caller's own.
WorkCall(t, at, state, out, listener, first) ==
  [kind |-> "work", t |-> t, at |-> at, state |-> state, out |-> out,
   seen |-> "none", listener |-> listener, first |-> first, op |-> "pending"]

\* work(signal, promise) called by the caller with the signal of Task t.
CallWork(w, t) ==
  LET tk == w.tasks[t]
  IN IF SignalThrows(tk)
     THEN [w EXCEPT !.calls = Append(@, WorkCall(t, "triggered", "rejected",
                                                 Err(tk.reason), FALSE, FALSE))]
     ELSE [w EXCEPT !.calls = Append(@, WorkCall(t, IF tk.aborted THEN "triggered" ELSE "open",
                                                 "racing", Ok(Null), TRUE,
                                                 ~tk.workListener))]

TaskWork(t) ==
  /\ CallerOps < MaxOps
  /\ ~tasks[t].inJob
  /\ Install(CallWork(World, t))

WorkOutcomes == {Ok(Value), Err(AppError)}

\* The operation handed to a work() call of the caller settles.
WorkOpSettle(id, o) ==
  /\ calls[id].kind = "work"
  /\ calls[id].state = "racing"
  /\ calls[id].op = "pending"
  /\ Install(Enqueue([World EXCEPT !.calls[id].op = "settled"],
                      Microtask("workReact", calls[id].t, id, o)))

Next ==
  \/ \E throws \in BOOLEAN : JobPerform(throws)
  \/ JobAbort
  \/ Dispose
  \/ CreateTask
  \/ \E t \in DOMAIN tasks, throws \in BOOLEAN : TaskPerform(t, throws)
  \/ \E t \in DOMAIN tasks, throws \in BOOLEAN : TaskThen(t, throws)
  \/ \E t \in DOMAIN tasks : TaskAbort(t)
  \/ \E t \in DOMAIN tasks : \E o \in OpOutcomes(t) : OpSettle(t, o)
  \/ \E t \in DOMAIN tasks : TaskWork(t)
  \/ \E id \in DOMAIN calls : \E o \in WorkOutcomes : WorkOpSettle(id, o)
  \/ RunMicrotask

Spec == Init /\ [][Next]_vars

\* The microtask queue is drained whenever the running block ends; nothing
\* makes an operation settle or the caller call.
LiveSpec == Spec /\ WF_vars(RunMicrotask)

\* ---- what the claims speak of ----

Terminal(status) == status \in {"fulfilled", "rejected", "aborted"}

JobTasks == {t \in DOMAIN tasks : tasks[t].inJob}

AbortCalls == {i \in DOMAIN calls : calls[i].kind \in {"abort", "dropAbort", "restartAbort", "jobAbort"}
                                     /\ calls[i].t # NoTask}

ThenCalls == {i \in DOMAIN calls : calls[i].kind = "then"}

Settled(i) == calls[i].state \in {"resolved", "rejected"}

Dropped(t) == \E i \in DOMAIN calls : calls[i].kind = "dropAbort" /\ calls[i].t = t

\* The kind of event that announces a terminal status.
KindOf(status) ==
  CASE status = "fulfilled" -> "fulfill"
    [] status = "rejected" -> "reject"
    [] status = "aborted" -> "abort"

\* C1: in a Drop-mode Job, at most one Task the Job created is Pending.
C1_SinglePendingDrop ==
  job.mode = "drop" =>
    Cardinality({t \in JobTasks : tasks[t].status = "pending"}) <= 1

C1_Witness ==
  /\ job.mode = "drop"
  /\ job.performCount >= 2
  /\ \E t \in JobTasks : tasks[t].status = "pending" /\ job.lastPending = t
  /\ \E t \in JobTasks : Dropped(t)

\* C2: in a Drop-mode Job a perform() made while lastPending is set returns a
\* Task that is already Aborted and whose factory was not invoked, leaves
\* lastPending, the status of the Task it refers to and that Task's signal as
\* they were, and no later perform() or await of the dropped Task invokes
\* its factory.
C2_DropStep ==
  (job.mode = "drop" /\ job.lastPending # NoTask
     /\ job'.performCount = job.performCount + 1)
  => /\ Len(tasks') = Len(tasks) + 1
     /\ tasks'[Len(tasks')].status = "aborted"
     /\ IsTaskAbortError(tasks'[Len(tasks')].error)
     /\ tasks'[Len(tasks')].factoryCalls = 0
     /\ job'.lastPending = job.lastPending
     /\ job'.status = job.status
     /\ tasks'[job.lastPending].status = tasks[job.lastPending].status
     /\ tasks'[job.lastPending].aborted = tasks[job.lastPending].aborted

C2_DropNeverStarts ==
  /\ [][C2_DropStep]_vars
  /\ [](\A t \in DOMAIN tasks :
          Dropped(t) => tasks[t].factoryCalls = 0 /\ tasks[t].status = "aborted")

C2_Witness ==
  \E i \in ThenCalls :
    /\ Dropped(calls[i].t)
    /\ calls[i].state = "rejected"
    /\ job.lastPending # NoTask
    /\ tasks[job.lastPending].status = "pending"
    /\ ~tasks[job.lastPending].aborted

\* C3: in a Restart-mode Job, a Task that was Pending and lastPending when
\* perform() superseded it ends Aborted, however its operation settling falls
\* against that perform().
C3_SupersededEndsAborted ==
  \A i \in DOMAIN calls :
    (calls[i].kind = "restartAbort" /\ calls[i].at = "pending"
       /\ Terminal(tasks[calls[i].t].status))
    => tasks[calls[i].t].status = "aborted"

\* C4: the promise of an abort() made on a Pending Task resolves only once the
\* Task is Aborted with a cancellation error.
C4_AbortResolvesAborted ==
  \A i \in AbortCalls :
    (calls[i].at = "pending" /\ calls[i].state = "resolved")
    => /\ calls[i].seen = "aborted"
       /\ IsTaskAbortError(tasks[calls[i].t].error)

\* C5: the Job never holds a Task that has reached a terminal status as its
\* lastPending.
C5_LastPendingNotTerminal ==
  job.lastPending # NoTask => ~Terminal(tasks[job.lastPending].status)

C7_Start ==
  \A t \in DOMAIN tasks' :
    IF t \in DOMAIN tasks
    THEN (tasks[t].promise = "none" /\ tasks'[t].promise # "none")
           => tasks'[t].factoryCalls = (IF tasks[t].aborted THEN 0 ELSE 1)
    ELSE /\ tasks'[t].promise # "none" => tasks'[t].factoryCalls = 1
         /\ ~tasks'[t].inJob => tasks'[t].status = "idle"

C7_FactoryOnce ==
  /\ [][C7_Start]_vars
  /\ [](\A t \in DOMAIN tasks :
          /\ tasks[t].factoryCalls <= 1
          /\ tasks[t].promise = "none" => tasks[t].factoryCalls = 0)

C7_Witness ==
  \E t \in DOMAIN tasks :
    /\ tasks[t].factoryCalls = 1
    /\ tasks[t].status = "fulfilled"
    /\ \E i, k \in ThenCalls :
         /\ i < k /\ calls[i].t = t /\ calls[k].t = t
         /\ calls[i].at = "idle" /\ calls[k].at = "fulfilled"
         /\ Settled(k)

\* C8: a Task aborted while Idle goes from Idle to Aborted with the
\* cancellation error and nowhere else: its factory is never invoked, and a
\* later perform() or await makes its promise reject with that error.
C8_IdleAbort ==
  \A i \in AbortCalls :
    calls[i].at = "idle" =>
      LET t == calls[i].t
          tk == tasks[t]
      IN /\ tk.log = <<"idle", "aborted">>
         /\ IsTaskAbortError(tk.error)
         /\ tk.error = tk.reason
         /\ tk.factoryCalls = 0
         /\ tk.promise \in {"none", "rejected"}
         /\ tk.promise = "rejected" => tk.result = tk.error
         /\ calls[i].state # "rejected"
         /\ \A k \in ThenCalls :
              (calls[k].t = t /\ Settled(k)) => calls[k].out = Err(tk.error)

C8_Witness ==
  \E i \in AbortCalls : \E k \in ThenCalls :
    /\ calls[i].at = "idle" /\ calls[i].kind = "abort"
    /\ calls[k].t = calls[i].t /\ i < k
    /\ calls[k].state = "rejected"
    /\ calls[i].state = "resolved"

\* C9: a Task dispatches no event before it is terminal and one event in all
\* once it is, of the kind of its terminal status.
C9_OneEvent ==
  \A t \in DOMAIN tasks :
    tasks[t].events = IF Terminal(tasks[t].status)
                      THEN <<KindOf(tasks[t].status)>>
                      ELSE <<>>

\* C10: the status of a Task moves only from Idle to Pending or Aborted and
\* from Pending to Fulfilled, Rejected or Aborted; starting an Idle Task whose
\* signal is not triggered sets Pending; once the status is terminal, status,
\* value and error stay as they are.
Edges ==
  {<<"idle", "pending">>, <<"idle", "aborted">>, <<"pending", "fulfilled">>,
   <<"pending", "rejected">>, <<"pending", "aborted">>}

C10_Step ==
  \A t \in DOMAIN tasks :
    /\ Terminal(tasks[t].status)
         => /\ tasks'[t].status = tasks[t].status
            /\ tasks'[t].value = tasks[t].value
            /\ tasks'[t].error = tasks[t].error
    /\ (tasks[t].status = "idle" /\ ~tasks[t].aborted /\ tasks'[t].promise # "none")
         => /\ Len(tasks'[t].log) >= 2 /\ tasks'[t].log[2] = "pending"
            /\ tasks'[t].status \in {"pending", "rejected"}

C10_Lifecycle ==
  /\ [][C10_Step]_vars
  /\ [](\A t \in DOMAIN tasks :
          /\ tasks[t].log[1] = "idle"
          /\ tasks[t].log[Len(tasks[t].log)] = tasks[t].status
          /\ \A n \in 1..(Len(tasks[t].log) - 1) :
               <<tasks[t].log[n], tasks[t].log[n + 1]>> \in Edges)

C10_Witness ==
  \E t \in DOMAIN tasks :
    /\ tasks[t].log = <<"idle", "pending", "rejected">>
    /\ \E i \in AbortCalls : calls[i].t = t /\ calls[i].at = "rejected"
    /\ \E k \in ThenCalls : calls[k].t = t /\ Settled(k)

\* The Tasks a Restart-mode perform() superseded while they were Pending.
Superseded ==
  {calls[i].t : i \in {k \in DOMAIN calls :
                        calls[k].kind = "restartAbort" /\ calls[k].at = "pending"}}

\* C11: when a Task of the Job that is not its lastPending becomes terminal,
\* the Job's status, lastPending and performCount stay as they are and no
\* last* slot other than the one of that kind of settlement changes (an abort
\* sets lastAborted); the Job is never Idle while its lastPending is Pending.
C11_Step ==
  \A t \in DOMAIN tasks :
    (tasks[t].inJob /\ job.lastPending # t
       /\ ~Terminal(tasks[t].status) /\ Terminal(tasks'[t].status))
    => /\ job'.status = job.status
       /\ job'.lastPending = job.lastPending
       /\ job'.performCount = job.performCount
       /\ tasks'[t].status = "aborted"
            => /\ job'.lastAborted = t
               /\ job'.lastFulfilled = job.lastFulfilled
               /\ job'.lastRejected = job.lastRejected
               /\ job'.lastSettled = job.lastSettled
       /\ tasks'[t].status = "fulfilled"
            => /\ job'.lastAborted = job.lastAborted
               /\ job'.lastRejected = job.lastRejected
               /\ job'.lastFulfilled \in {job.lastFulfilled, t}
               /\ job'.lastSettled \in {job.lastSettled, t}
       /\ tasks'[t].status = "rejected"
            => /\ job'.lastAborted = job.lastAborted
               /\ job'.lastFulfilled = job.lastFulfilled
               /\ job'.lastRejected \in {job.lastRejected, t}
               /\ job'.lastSettled \in {job.lastSettled, t}

C11_LateSettlementFrame ==
  /\ [][C11_Step]_vars
  /\ []((job.lastPending # NoTask /\ tasks[job.lastPending].status = "pending")
          => job.status = "pending")

C11_Witness ==
  \E a \in Superseded :
    /\ tasks[a].status = "aborted"
    /\ job.lastAborted = a
    /\ job.lastPending \notin {NoTask, a}
    /\ tasks[job.lastPending].status = "pending"
    /\ job.status = "pending"

\* C12: in a Restart-mode Job, lastFulfilled, lastRejected and lastSettled
\* never refer to a Task that perform() superseded while it was Pending.
C12_SupersededNotSettled ==
  \A a \in Superseded :
    /\ job.lastFulfilled # a
    /\ job.lastRejected # a
    /\ job.lastSettled # a

C12_Witness ==
  \E a \in Superseded :
    /\ job.mode = "restart"
    /\ tasks[a].op = "settled"
    /\ tasks[a].status \in {"fulfilled", "rejected"}
    /\ job.lastSettled # a

\* C13: the Job's status is Pending exactly when lastPending is set, and Idle
\* exactly when it is not.
C13_StatusIffLastPending ==
  /\ job.status \in {"idle", "pending"}
  /\ job.status = "pending" <=> job.lastPending # NoTask

C13_Witness ==
  /\ job.status = "pending"
  /\ job.lastPending # NoTask
  /\ job.lastSettled \notin {NoTask, job.lastPending}
  /\ job.performCount >= 2

\* The status of Task t before a step, a Task built in the step being Idle.
Before(t) == IF t \in DOMAIN tasks THEN tasks[t].status ELSE "idle"

\* C14: when a Task of the Job becomes Fulfilled the Job's lastFulfilled and
\* lastSettled are set to it, when it becomes Rejected lastRejected and
\* lastSettled are, and when it becomes Aborted lastAborted is and
\* lastSettled, lastFulfilled and lastRejected stay as they were.
C14_Bookkeeping ==
  \A t \in DOMAIN tasks' :
    (tasks'[t].inJob /\ ~Terminal(Before(t)))
    => /\ tasks'[t].status = "fulfilled"
            => job'.lastFulfilled = t /\ job'.lastSettled = t
       /\ tasks'[t].status = "rejected"
            => job'.lastRejected = t /\ job'.lastSettled = t
       /\ tasks'[t].status = "aborted"
            => /\ job'.lastAborted = t
               /\ job'.lastSettled = job.lastSettled
               /\ job'.lastFulfilled = job.lastFulfilled
               /\ job'.lastRejected = job.lastRejected

C14_SettlementBookkeeping == [][C14_Bookkeeping]_vars

\* The promises of the abort() calls perform() makes itself and lets go of.
InternalAborts ==
  {i \in DOMAIN calls : calls[i].kind \in {"dropAbort", "restartAbort"}}

\* C15: perform() does not throw and returns the Task it built, started or
\* dropped; a failure or an abort of the operation shows in that Task and in
\* the last* slots and nowhere else: no promise perform() made and let go of
\* rejects.
C15_PerformStep ==
  job'.performCount # job.performCount
  => LET n == Len(tasks')
     IN /\ n = Len(tasks) + 1
        /\ tasks'[n].inJob
        /\ tasks'[n].status \in {"pending", "rejected", "aborted"}
        /\ tasks'[n].status = "aborted"
             <=> (job.lastPending # NoTask /\ job.mode = "drop")
        /\ tasks'[n].status = "aborted"
             => IsTaskAbortError(tasks'[n].error) /\ job'.lastAborted = n
        /\ tasks'[n].status = "rejected"
             => /\ tasks'[n].error = ThrownError
                /\ tasks'[n].promise = "rejected"
                /\ tasks'[n].result = ThrownError
                /\ job'.lastRejected = n /\ job'.lastSettled = n

C15_PerformNeverThrows ==
  /\ [][C15_PerformStep]_vars
  /\ [](\A i \in InternalAborts : calls[i].state # "rejected")

\* The promises Job.abort() returned after forwarding to a Pending Task.
JobAbortsOfPending ==
  {i \in DOMAIN calls : calls[i].kind = "jobAbort" /\ calls[i].at = "pending"}

\* C16: at the step in which the promise of a Job.abort() made while a Task
\* was lastPending resolves, that Task is Aborted and is not lastPending, and
\* lastFulfilled, lastRejected and lastSettled have not come to refer to it;
\* and when no perform() was made after the one that built that Task, the Job
\* is Idle with lastPending unset and lastAborted is that Task.
C16_Step ==
  \A i \in JobAbortsOfPending :
    (calls[i].state # "resolved" /\ calls'[i].state = "resolved")
    => LET t == calls[i].t
       IN /\ tasks'[t].status = "aborted"
          /\ job'.lastPending # t
          /\ Len(tasks') = t
               => /\ job'.status = "idle"
                  /\ job'.lastPending = NoTask
                  /\ job'.lastAborted = t
          /\ job'.lastFulfilled # t
          /\ job'.lastRejected # t
          /\ job'.lastSettled # t

C16_JobAbortSettlesAborted == [][C16_Step]_vars

\* C17: a Job.abort() made while lastPending is unset changes nothing of the
\* Job (status, performCount, last* slots) and nothing of any Task, queues
\* nothing, and the promise it returns is resolved.
C17_Step ==
  (job.lastPending = NoTask /\ Len(calls') = Len(calls) + 1
     /\ calls'[Len(calls')].kind = "jobAbort")
  => /\ job' = job
     /\ tasks' = tasks
     /\ mq' = mq
     /\ calls'[Len(calls')].state = "resolved"

C17_JobAbortIdleNoop == [][C17_Step]_vars

C17_Witness ==
  /\ job.lastPending = NoTask
  /\ job.lastAborted # NoTask
  /\ job.performCount >= 1
  /\ \E i \in DOMAIN calls :
       /\ calls[i].kind = "jobAbort" /\ calls[i].at = "none"
       /\ calls[i].state = "resolved"
       /\ \E k \in 1..(i - 1) : calls[k].kind = "jobAbort"

\* C18: performCount is the number of perform() calls made so far, dropped
\* ones included; a step changes it only by adding one, and only a perform()
\* does.
C18_Step ==
  /\ job'.performCount \in {job.performCount, job.performCount + 1}
  /\ job'.performCount = job.performCount + 1
       <=> (Len(tasks') = Len(tasks) + 1 /\ tasks'[Len(tasks')].inJob)

C18_PerformCount ==
  /\ [][C18_Step]_vars
  /\ [](job.performCount = Cardinality(JobTasks))

C18_Witness ==
  /\ job.performCount = 2
  /\ \E t \in JobTasks : Dropped(t)
  /\ job.lastFulfilled # NoTask
  /\ job.status = "idle"

WorkCalls == {i \in DOMAIN calls : calls[i].kind = "work"}

\* C19: when the signal is triggered while the promise a work() returned has
\* not settled, that promise rejects with the signal's reason, whether the
\* operation settled before the triggering or not; for the work() inside a
\* Task and for a work() the caller calls with the Task's signal.
C19_Step ==
  /\ \A t \in DOMAIN tasks :
       (tasks[t].race = "pending" /\ tasks[t].aborted /\ tasks'[t].race = "settled")
       => tasks'[t].raceResult = Err(tasks[t].reason)
  /\ \A i \in WorkCalls :
       (calls[i].state = "racing" /\ tasks[calls[i].t].aborted
          /\ calls'[i].state # "racing")
       => /\ calls'[i].state = "rejected"
          /\ calls'[i].out = Err(tasks[calls[i].t].reason)

C19_SignalAlwaysWins == [][C19_Step]_vars

\* C20: a work() called with a signal that is already triggered returns a
\* promise rejected with the signal's reason, while the operation is still
\* pending, and has no abort listener on the signal.
C20_WorkOnTriggeredSignal ==
  \A i \in WorkCalls :
    calls[i].at = "triggered"
    => /\ calls[i].state = "rejected"
       /\ calls[i].out = Err(tasks[calls[i].t].reason)
       /\ ~calls[i].listener
       /\ calls[i].op = "pending"

C20_Witness ==
  \E i \in WorkCalls :
    /\ calls[i].at = "triggered"
    /\ tasks[calls[i].t].aborted
    /\ calls[i].state = "rejected"
    /\ IsTaskAbortError(calls[i].out.v)

PendingJobTasks == {t \in JobTasks : tasks[t].status = "pending"}

\* C21 as claimed: in a Restart-mode Job no two Tasks of the Job have status
\* Pending at once.
C21_SinglePendingRestart ==
  job.mode = "restart" => Cardinality(PendingJobTasks) <= 1

\* C21 as amended: in a Restart-mode Job every Pending Task of the Job other
\* than lastPending has had its signal triggered, so at most one Pending Task
\* has an untriggered signal; a superseded Task may keep status Pending until
\* its abort has settled.
C21_SingleLivePendingRestart ==
  job.mode = "restart" =>
    /\ \A t \in PendingJobTasks : t # job.lastPending => tasks[t].aborted
    /\ Cardinality({t \in PendingJobTasks : ~tasks[t].aborted}) <= 1

C21_Witness ==
  /\ job.mode = "restart"
  /\ \E a, b \in PendingJobTasks :
       /\ a < b
       /\ tasks[a].aborted /\ ~tasks[b].aborted
       /\ job.lastPending = b

\* The Tasks whose operation rejected with an error that is not a
\* TaskAbortError, the rejection having reached #resolve, and whose signal
\* is not triggered.
RejectedByOperation ==
  {t \in DOMAIN tasks :
     /\ ~tasks[t].aborted
     /\ tasks[t].race = "settled" /\ tasks[t].promise # "pending"
     /\ ~tasks[t].raceResult.ok /\ ~IsTaskAbortError(tasks[t].raceResult.v)}

\* C22: a Task whose operation rejected with an application error while its
\* signal is not triggered is Rejected, its error is that error, its promise
\* rejected with it, and every then/catch/finally that has settled got it.
C22_ErrorUnchanged ==
  \A t \in RejectedByOperation :
    LET e == tasks[t].raceResult.v
    IN /\ tasks[t].status = "rejected"
       /\ tasks[t].error = e
       /\ tasks[t].promise = "rejected" /\ tasks[t].result = e
       /\ \A k \in ThenCalls :
            (calls[k].t = t /\ Settled(k)) => calls[k].out = Err(e)

C22_Witness ==
  \E t \in RejectedByOperation : \E k \in ThenCalls :
    /\ tasks[t].error = AppError
    /\ calls[k].t = t /\ calls[k].state = "rejected"
    /\ calls[k].out = Err(AppError)

CleanupAborts == {i \in DOMAIN calls : calls[i].kind = "cleanupAbort"}

\* C23: disposing the owner of a Job calls Job.abort() once, and the Task
\* that was lastPending and Pending at that moment ends Aborted and does not
\* stay the Job's lastPending.
C23_CleanupAborts ==
  /\ Cardinality(CleanupAborts) <= 1
  /\ \A i \in CleanupAborts :
       (calls[i].at = "pending" /\ Terminal(tasks[calls[i].t].status))
       => /\ tasks[calls[i].t].status = "aborted"
          /\ job.lastPending # calls[i].t

\* A Task that owes a settlement: Pending with its operation settled or its
\* signal triggered.  An abort() call that owes one: made on a Pending Task
\* and its promise not settled.  Either stays owed until it is paid.
Owing ==
  \/ \E t \in DOMAIN tasks :
       tasks[t].status = "pending" /\ (tasks[t].op = "settled" \/ tasks[t].aborted)
  \/ \E i \in AbortCalls : calls[i].at = "pending" /\ ~Settled(i)

\* C24: a started Task whose operation has settled or whose signal has been
\* triggered becomes terminal, and the promise of an abort() made on a
\* Pending Task settles: nothing stays owed for ever.  When the operation has
\* not settled by the time that promise settles, it is resolved and the Task
\* is Aborted.
C24_Terminates ==
  /\ []<>(~Owing)
  /\ [](\A i \in AbortCalls :
          (calls[i].at = "pending" /\ Settled(i) /\ tasks[calls[i].t].op = "pending")
          => /\ calls[i].state = "resolved"
             /\ tasks[calls[i].t].status = "aborted")

C24_Witness ==
  \E i \in AbortCalls :
    /\ calls[i].at = "pending" /\ calls[i].state = "resolved"
    /\ tasks[calls[i].t].op = "pending"
    /\ tasks[calls[i].t].status = "aborted"

\* The reason each kind of abort() call was made with.
ReasonOf(kind) ==
  CASE kind = "abort" -> TaskReason
    [] kind = "jobAbort" -> JobReason
    [] OTHER -> DefaultReason

\* The abort() calls made on Task t while it was Pending, in call order.
PendingAborts(t) ==
  SelectSeq([i \in 1..Len(calls) |-> i],
            LAMBDA i : /\ calls[i].kind \in {"abort", "jobAbort", "cleanupAbort",
                                             "dropAbort", "restartAbort"}
                       /\ calls[i].t = t /\ calls[i].at = "pending")

\* C25: when abort() is called twice on a Task that has not settled, the
\* signal's reason is the first call's and stays so, the Task ends Aborted
\* with that reason as its error, and both promises resolve with the Task
\* Aborted.
C25_FirstReasonWins ==
  \A t \in DOMAIN tasks :
    LET ids == PendingAborts(t)
    IN Len(ids) >= 2
       => /\ tasks[t].reason = AbortError(ReasonOf(calls[ids[1]].kind))
          /\ Terminal(tasks[t].status)
               => /\ tasks[t].status = "aborted"
                  /\ tasks[t].error = tasks[t].reason
          /\ \A n \in 1..Len(ids) :
               Settled(ids[n])
               => /\ calls[ids[n]].state = "resolved"
                  /\ calls[ids[n]].seen = "aborted"

\* C26: a Task is Aborted only if its own signal has been triggered; with
\* the signal untriggered a terminal Task is Fulfilled or Rejected, whatever
\* its operation rejected with.
C26_AbortedOnlyBySignal ==
  \A t \in DOMAIN tasks :
    /\ tasks[t].status = "aborted" => tasks[t].aborted
    /\ (Terminal(tasks[t].status) /\ ~tasks[t].aborted)
         => tasks[t].status \in {"fulfilled", "rejected"}

\* The kinds of event the caller's listeners on Task t were invoked for.
HeardKinds(tk) == {tk.heard[n].kind : n \in 1..Len(tk.heard)}

\* The caller's abort listener was registered before the signal was
\* triggered: the caller gets hold of a dropped Task only after its abort.
ListenedBeforeTrigger(t) == ~tasks[t].inJob \/ ~Dropped(t)

\* C27: once the signal of a Task is triggered no fulfill or reject listener
\* is invoked for it, the caller's or the Job's; an abort listener registered
\* before the trigger has been invoked once the Task is Aborted.
C27_Step ==
  \A t \in DOMAIN tasks :
    tasks[t].aborted
    => /\ HeardKinds(tasks'[t]) \ {"abort"} = HeardKinds(tasks[t]) \ {"abort"}
       /\ job'.lastFulfilled = t => job.lastFulfilled = t
       /\ job'.lastRejected = t => job.lastRejected = t

C28_Step ==
  \A t \in DOMAIN tasks :
    tasks[t].status = "aborted"
    => /\ tasks'[t].status = "aborted"
       /\ tasks'[t].value = tasks[t].value
       /\ tasks'[t].error = tasks[t].error
       /\ \A n \in 1..Len(tasks'[t].events) :
            n > Len(tasks[t].events) => tasks'[t].events[n] = "abort"
       /\ tasks'[t].op # tasks[t].op => job' = job /\ mq' = mq

C28_LateSettlementIgnored == [][C28_Step]_vars

C28_Witness ==
  \E t \in DOMAIN tasks :
    /\ tasks[t].status = "aborted"
    /\ tasks[t].aborted
    /\ tasks[t].op = "settled"
    /\ tasks[t].raceResult = Err(tasks[t].reason)
    /\ tasks[t].error = tasks[t].reason
    /\ tasks[t].value = Null
    /\ mq = <<>>

\* C29: whenever a listener of the caller is invoked, the Task's status is
\* the terminal one of the event's kind and its value (fulfill) or error
\* (reject, abort) is set; for a Task of a Job the Job's matching last* slot
\* refers to the Task and lastPending does not.
C29_ConsistentAtEvent ==
  \A t \in DOMAIN tasks : \A n \in 1..Len(tasks[t].heard) :
    LET h == tasks[t].heard[n]
    IN /\ h.kind = KindOf(h.status)
       /\ h.kind = "fulfill" => h.value # Null
       /\ h.kind \in {"reject", "abort"} => h.error # Null
       /\ tasks[t].inJob
            => /\ h.job.lastPending # t
               /\ h.kind = "fulfill" => h.job.lastFulfilled = t /\ h.job.lastSettled = t
               /\ h.kind = "reject" => h.job.lastRejected = t /\ h.job.lastSettled = t
               /\ h.kind = "abort" => h.job.lastAborted = t

\* C30: once a work() has settled, won by the operation or by the signal,
\* the abort listener it registered is no longer on the signal; so for the
\* work() inside a Task and for the work() calls of the caller.
C30_NoListenerLeak ==
  /\ \A t \in DOMAIN tasks : tasks[t].race = "settled" => ~tasks[t].workListener
  /\ \A i \in WorkCalls : calls[i].state # "racing" => ~calls[i].listener

C30_Witness ==
  /\ \E t \in DOMAIN tasks :
       /\ tasks[t].race = "settled" /\ tasks[t].raceResult.ok
       /\ ~tasks[t].aborted /\ ~tasks[t].workListener
  /\ \E i \in WorkCalls :
       /\ calls[i].at = "open" /\ calls[i].state = "resolved"
       /\ ~calls[i].listener

\* C31: when the factory throws synchronously in a perform() made on an Idle
\* Job, the Task perform() returns is Rejected with the thrown error and the
\* Job is Idle with lastPending unset when perform() returns.
C31_Step ==
  (job.status = "idle" /\ job.lastPending = NoTask
     /\ job'.performCount = job.performCount + 1
     /\ tasks'[Len(tasks')].error = ThrownError)
  => /\ Len(tasks') = Len(tasks) + 1
     /\ tasks'[Len(tasks')].status = "rejected"
     /\ job'.status = "idle"
     /\ job'.lastPending = NoTask

C31_ThrowingFactoryLeavesIdle == [][C31_Step]_vars

\* C32: in a Drop-mode Job whose lastPending Task is Pending, a perform()
\* made once that Task's signal is triggered is dropped (the new Task is
\* Aborted with a TaskAbortError, its factory not called, lastPending kept),
\* and lastPending leaves a Task whose signal is triggered only in a microtask
\* that ends the Task Aborted and dispatches its "abort" event, never inside
\* the abort() or perform() call.
C32_Step ==
  \A p \in DOMAIN tasks :
    (job.mode = "drop" /\ job.lastPending = p /\ tasks[p].status = "pending")
    => /\ (tasks[p].aborted /\ job'.performCount = job.performCount + 1)
          => LET n == Len(tasks')
             IN /\ n = Len(tasks) + 1
                /\ tasks'[n].status = "aborted"
                /\ IsTaskAbortError(tasks'[n].error)
                /\ tasks'[n].factoryCalls = 0
                /\ tasks'[n].promise = "none"
                /\ job'.lastPending = p
                /\ job'.status = "pending"
       /\ (tasks'[p].aborted /\ job'.lastPending # p)
          => /\ job'.lastPending = NoTask
             /\ Len(calls') = Len(calls)
             /\ Len(tasks') = Len(tasks)
             /\ mq # <<>>
             /\ tasks'[p].status = "aborted"
             /\ tasks'[p].events = Append(tasks[p].events, "abort")

C32_DroppedWhileAborting == [][C32_Step]_vars

C32_Witness ==
  /\ job.mode = "drop"
  /\ \E p \in JobTasks :
       /\ job.lastPending = p
       /\ tasks[p].status = "pending"
       /\ tasks[p].aborted
       /\ \E n \in JobTasks :
            /\ n > p
            /\ Dropped(n)
            /\ tasks[n].status = "aborted"
            /\ tasks[n].factoryCalls = 0
            /\ \E i \in AbortCalls :
                 /\ calls[i].t = p
                 /\ calls[i].kind \in {"abort", "jobAbort"}
                 /\ \E k \in DOMAIN calls :
                      k > i /\ calls[k].kind = "dropAbort" /\ calls[k].t = n

\* C33: lastFulfilled, lastRejected and lastAborted, when set, reference a
\* Task of the Job whose status is Fulfilled, Rejected and Aborted; lastSettled
\* is unset exactly when lastFulfilled and lastRejected both are and otherwise
\* equals one of them; a step that sets lastFulfilled or lastRejected sets
\* lastSettled to the same Task, and lastSettled changes in no other step.
C33_Slots ==
  /\ \A f \in {"lastFulfilled", "lastRejected", "lastAborted", "lastSettled"} :
       job[f] # NoTask => job[f] \in JobTasks
  /\ job.lastFulfilled # NoTask => tasks[job.lastFulfilled].status = "fulfilled"
  /\ job.lastRejected # NoTask => tasks[job.lastRejected].status = "rejected"
  /\ job.lastAborted # NoTask => tasks[job.lastAborted].status = "aborted"
  /\ job.lastSettled = NoTask
       <=> (job.lastFulfilled = NoTask /\ job.lastRejected = NoTask)
  /\ job.lastSettled # NoTask
       => job.lastSettled \in {job.lastFulfilled, job.lastRejected}

C33_Step ==
  /\ job'.lastFulfilled # job.lastFulfilled => job'.lastSettled = job'.lastFulfilled
  /\ job'.lastRejected # job.lastRejected => job'.lastSettled = job'.lastRejected
  /\ job'.lastSettled # job.lastSettled
       => (job'.lastFulfilled # job.lastFulfilled
             \/ job'.lastRejected # job.lastRejected)
  /\ ~(job'.lastFulfilled # job.lastFulfilled /\ job'.lastRejected # job.lastRejected)

C33_LastSlotsMatchStatus == [][C33_Step]_vars /\ []C33_Slots

C33_Witness ==
  /\ job.lastFulfilled # NoTask
  /\ job.lastRejected # NoTask
  /\ job.lastAborted # NoTask
  /\ job.lastSettled = job.lastFulfilled
  /\ tasks[job.lastFulfilled].status = "fulfilled"
  /\ tasks[job.lastRejected].status = "rejected"
  /\ tasks[job.lastAborted].status = "aborted"

\* The kinds of call that are an abort() of a Task, made by the caller, by
\* Job.abort() or by Job.perform().
AbortKinds == {"abort", "jobAbort", "cleanupAbort", "dropAbort", "restartAbort"}

\* C34: a step in which abort() is called on Task x leaves the status, the
\* signal (triggered or not, and its reason), the value and the error of
\* every other Task unchanged; the signal of a Task turns triggered only in a
\* step that calls abort() on that Task; and the Task a Restart-mode
\* perform() starts while aborting the superseded one is not aborted.
C34_Step ==
  LET n == Len(calls')
      called == Len(calls') = Len(calls) + 1 /\ calls'[n].kind \in AbortKinds
                  /\ calls'[n].t # NoTask
  IN /\ called =>
          \A y \in DOMAIN tasks \ {calls'[n].t} :
            /\ tasks'[y].status = tasks[y].status
            /\ tasks'[y].aborted = tasks[y].aborted
            /\ tasks'[y].reason = tasks[y].reason
            /\ tasks'[y].value = tasks[y].value
            /\ tasks'[y].error = tasks[y].error
     /\ \A y \in DOMAIN tasks' :
          (tasks'[y].aborted /\ (y \in DOMAIN tasks => ~tasks[y].aborted))
          => called /\ calls'[n].t = y
     /\ (called /\ calls'[n].kind = "restartAbort") =>
          LET b == Len(tasks')
          IN /\ b = Len(tasks) + 1
             /\ calls'[n].t \in DOMAIN tasks
             /\ ~tasks'[b].aborted
             /\ tasks'[b].reason = Null
             /\ tasks'[b].status \in {"pending", "rejected"}
             /\ ~IsTaskAbortError(tasks'[b].error)
             /\ job'.lastPending = b

C34_AbortOnlyOwnSignal == [][C34_Step]_vars

C34_Witness ==
  /\ job.mode = "restart"
  /\ \E i, k \in DOMAIN calls :
       /\ i < k
       /\ calls[i].kind = "restartAbort"
       /\ calls[k].kind \in {"abort", "jobAbort"}
       /\ calls[k].t \in JobTasks
       /\ calls[k].t # calls[i].t
       /\ tasks[calls[i].t].aborted
       /\ tasks[calls[k].t].aborted
       /\ tasks[calls[i].t].reason # tasks[calls[k].t].reason
====
